---- MODULE Spec2Model ----
(***************************************************************************)
(* A model of the todo application of src/todoai: the enum codecs of the   *)
(* models, the inference service (OpenAITodoAI), the repository            *)
(* (PostgresTodoRepo) over its one table, and the service that composes    *)
(* them (LiveTodoService).                                                 *)
(***************************************************************************)
EXTENDS Integers, Sequences, FiniteSets, TLC

\* ------------------------------------------------------------------ bounds
\* ids the serial column hands out before the model stops creating
MaxId == 2
\* integer codes -CodeRange..CodeRange are handed to the decoders
CodeRange == 16
\* calls the concurrent callers send before the model stops sending
MaxCalls == 3
\* calls the callers of the users server send before the model stops sending
MaxUsersCalls == 4

\* ----------------------------------------------------------------- options
None == [tag |-> "None"]
Some(x) == [tag |-> "Some", val |-> x]
IsSome(o) == o.tag = "Some"

\* The value of an enum-valued expression that panicked, and of an
\* option-valued one.
Panic == "panic"
PanicOpt == [tag |-> "Panic"]

\* ------------------------------------------------------------ models/status
Status == {"Todo", "InProgress", "Done", "Aborted"}

\* a slip in the decoder: the codes of the cast, Aborted from 3
StatusFromI16_Discriminants(i) ==
    CASE i = 0 -> "Todo"
      [] i = 1 -> "InProgress"
      [] i = 2 -> "Done"
      [] i = 3 -> "Aborted"
      [] OTHER -> Panic

\* impl From<i16> for Status
StatusFromI16(i) ==
    CASE i = 0 -> "Todo"
      [] i = 1 -> "InProgress"
      [] i = 2 -> "Done"
      [] i = -1 -> "Aborted"
      [] OTHER -> Panic

\* a slip in the encoder: Aborted gets the next free code
StatusIntoI16_AbortedAs3(s) ==
    CASE s = "Todo" -> 0
      [] s = "InProgress" -> 1
      [] s = "Done" -> 2
      [] s = "Aborted" -> 3

\* impl Into<i16> for Status
StatusIntoI16(s) ==
    CASE s = "Todo" -> 0
      [] s = "InProgress" -> 1
      [] s = "Done" -> 2
      [] s = "Aborted" -> -1

\* `status as i16`: the cast of a fieldless enum gives the discriminant, the
\* position of the variant in the declaration.
StatusAsI16(s) ==
    CASE s = "Todo" -> 0
      [] s = "InProgress" -> 1
      [] s = "Done" -> 2
      [] s = "Aborted" -> 3

\* ---------------------------------------------------------- models/priority
Priority == {"Low", "Medium", "High"}

\* impl From<i16> for Priority
PriorityFromI16(i) ==
    CASE i = 0 -> "Low"
      [] i = 1 -> "Medium"
      [] i = 2 -> "High"
      [] OTHER -> Panic

\* impl From<String> for Priority
PriorityFromString(s) ==
    CASE s = "Low" -> "Low"
      [] s = "Medium" -> "Medium"
      [] s = "High" -> "High"
      [] OTHER -> Panic

\* impl Into<i16> for Priority
PriorityIntoI16(p) ==
    CASE p = "Low" -> 0
      [] p = "Medium" -> 1
      [] p = "High" -> 2

\* a slip in the declaration: the codes start at one
PriorityAsI16_FromOne(p) ==
    CASE p = "Low" -> 1
      [] p = "Medium" -> 2
      [] p = "High" -> 0

\* `priority as i16`
PriorityAsI16(p) ==
    CASE p = "Low" -> 0
      [] p = "Medium" -> 1
      [] p = "High" -> 2

\* ---------------------------------------------------------- architecture.rs
ArchStatus == {"Todo", "InProgress", "Done", "Cancelled"}

ArchStatusFromI16(i) ==
    CASE i = 0 -> "Todo"
      [] i = 1 -> "InProgress"
      [] i = 2 -> "Done"
      [] i = 3 -> "Cancelled"
      [] OTHER -> Panic

ArchStatusIntoI16(s) ==
    CASE s = "Todo" -> 0
      [] s = "InProgress" -> 1
      [] s = "Done" -> 2
      [] s = "Cancelled" -> 3

ArchPriorityFromI16(i) ==
    CASE i = 0 -> "Low"
      [] i = 1 -> "Medium"
      [] i = 2 -> "High"
      [] OTHER -> Panic

ArchPriorityIntoI16(p) ==
    CASE p = "Low" -> 0
      [] p = "Medium" -> 1
      [] p = "High" -> 2

\* ----------------------------------------------- services/todoai: parse_date
\* A text is a sequence of characters, each a one-character string.
DigitChars == <<"0", "1", "2", "3", "4", "5", "6", "7", "8", "9">>

IsDigit(c) == \E k \in 1..10 : DigitChars[k] = c

DigitVal(c) == (CHOOSE k \in 1..10 : DigitChars[k] = c) - 1

\* chrono trims leading whitespace before a numeric item
RECURSIVE TrimStart(_)
TrimStart(s) ==
    IF s # <<>> /\ Head(s) = " " THEN TrimStart(Tail(s)) ELSE s

\* how many of the first max characters of s are leading digits
RECURSIVE CountDigits(_, _)
CountDigits(s, max) ==
    IF max = 0 \/ s = <<>> \/ ~IsDigit(Head(s))
    THEN 0
    ELSE 1 + CountDigits(Tail(s), max - 1)

RECURSIVE ToNumber(_)
ToNumber(ds) ==
    IF ds = <<>>
    THEN 0
    ELSE 10 * ToNumber(SubSeq(ds, 1, Len(ds) - 1)) + DigitVal(ds[Len(ds)])

ParseErr == [ok |-> FALSE]

\* chrono scan::number(s, min, max): between min and max leading digits
TakeDigits(s, min, n) ==
    IF n < min
    THEN ParseErr
    ELSE [ok |-> TRUE, val |-> ToNumber(SubSeq(s, 1, n)),
          rest |-> SubSeq(s, n + 1, Len(s))]

ScanNumber(s, min, max) == TakeDigits(s, min, CountDigits(s, max))

Negated(r) == IF r.ok THEN [r EXCEPT !.val = 0 - r.val] ELSE ParseErr

\* %Y: a signed number; without a sign, at most four digits
ScanSigned(s) ==
    IF s # <<>> /\ Head(s) = "-"
    THEN Negated(ScanNumber(Tail(s), 1, Len(s)))
    ELSE IF s # <<>> /\ Head(s) = "+"
    THEN ScanNumber(Tail(s), 1, Len(s))
    ELSE ScanNumber(s, 1, 4)

ScanYear(s) == ScanSigned(TrimStart(s))

\* %m and %d: one or two digits
ScanTwoDigits(s) == ScanNumber(TrimStart(s), 1, 2)

\* the literal "-" of the format
ScanDash(s) ==
    IF s # <<>> /\ Head(s) = "-"
    THEN [ok |-> TRUE, rest |-> Tail(s)]
    ELSE ParseErr

IsLeapYear(y) == (y % 4 = 0 /\ y % 100 # 0) \/ y % 400 = 0

DaysInMonth(y, m) ==
    CASE m \in {1, 3, 5, 7, 8, 10, 12} -> 31
      [] m \in {4, 6, 9, 11} -> 30
      [] m = 2 -> IF IsLeapYear(y) THEN 29 ELSE 28
      [] OTHER -> 0

\* NaiveDate::from_ymd_opt
ValidYmd(y, m, d) == m \in 1..12 /\ d >= 1 /\ d <= DaysInMonth(y, m)

\* a slip in the format: "%Y-%d-%m", the day before the month
ParseEnd_DayFirst(y, m, d) ==
    IF ~d.ok \/ d.rest # <<>> THEN ParseErr
    ELSE IF ~ValidYmd(y.val, d.val, m.val) THEN ParseErr
    ELSE [ok |-> TRUE, year |-> y.val, month |-> d.val, day |-> m.val]

\* NaiveDate::parse_from_str(s, "%Y-%m-%d"), item by item: each item is
\* parsed from what the one before it left; nothing may be left at the end,
\* and the three numbers must name a day of the calendar.
ParseEnd(y, m, d) ==
    IF ~d.ok \/ d.rest # <<>> THEN ParseErr
    ELSE IF ~ValidYmd(y.val, m.val, d.val) THEN ParseErr
    ELSE [ok |-> TRUE, year |-> y.val, month |-> m.val, day |-> d.val]

ParseDay(y, m, dash) ==
    IF ~dash.ok THEN ParseErr ELSE ParseEnd(y, m, ScanTwoDigits(dash.rest))

ParseSecondDash(y, m) ==
    IF ~m.ok THEN ParseErr ELSE ParseDay(y, m, ScanDash(m.rest))

ParseMonth(y, dash) ==
    IF ~dash.ok THEN ParseErr ELSE ParseSecondDash(y, ScanTwoDigits(dash.rest))

ParseFirstDash(y) ==
    IF ~y.ok THEN ParseErr ELSE ParseMonth(y, ScanDash(y.rest))

NaiveDateParseFromStr(s) == ParseFirstDash(ScanYear(s))

\* NaiveDate::and_hms_opt(h, m, s)
AndHmsOpt(date, h, mi, sec) ==
    IF h \in 0..23 /\ mi \in 0..59 /\ sec \in 0..59
    THEN Some([year |-> date.year, month |-> date.month, day |-> date.day,
               hour |-> h, minute |-> mi, second |-> sec])
    ELSE None

\* OpenAITodoAI::parse_date: the Result of the parse is unwrapped
UnwrapDate(r) == IF r.ok THEN AndHmsOpt(r, 0, 0, 0) ELSE PanicOpt

parse_date(s) == UnwrapDate(NaiveDateParseFromStr(s))

\* ------------------------------------------- services/todoai: OpenAITodoAI
\* What the chat-completion call gives back: an error, or a response with a
\* list of choices, each with an optional content.
ApiErr == [tag |-> "Err"]
ApiOk(choices) == [tag |-> "Ok", choices |-> choices]

\* the responses the external service may give when the useful text is one
\* of texts: an error, no choice, a choice without content, a choice with a
\* text, two choices
ApiResponses(texts) ==
    {ApiErr, ApiOk(<<>>), ApiOk(<<None>>)}
        \cup {ApiOk(<<Some(t)>>) : t \in texts}
        \cup {ApiOk(<<Some(t), None>>) : t \in texts}

\* the responses the calls of the service get: an error, no choice, a choice
\* with a text
Answers(texts) == {ApiErr, ApiOk(<<>>)} \cup {ApiOk(<<Some(t)>>) : t \in texts}

\* OpenAITodoAI::send_prompt: Result<Option<String>, OpenAIError>
send_prompt(resp) ==
    IF resp.tag = "Err"
    THEN [tag |-> "Err"]
    ELSE [tag |-> "Ok",
          val |-> IF resp.choices = <<>> THEN None ELSE Head(resp.choices)]

\* .unwrap() of the Result of send_prompt
UnwrapPrompt(r) == IF r.tag = "Err" THEN PanicOpt ELSE r.val

PriorityOf(p) == IF p = Panic THEN PanicOpt ELSE Some(p)

\* .map(|s| OpenAITodoAI::parse_date(&s)).flatten()
ParsedDeadline(o) == IF IsSome(o) THEN parse_date(o.val) ELSE o

\* .map(|s| Priority::from(s))
ParsedPriority(o) ==
    IF IsSome(o) THEN PriorityOf(PriorityFromString(o.val)) ELSE o

infer_title(resp) == UnwrapPrompt(send_prompt(resp))

infer_deadline(resp) == ParsedDeadline(UnwrapPrompt(send_prompt(resp)))

infer_priority(resp) == ParsedPriority(UnwrapPrompt(send_prompt(resp)))

infer_tags(resp) == UnwrapPrompt(send_prompt(resp))

\* ------------------------------------------------- the inputs of the model
\* a date as the text the prompt asks for, YYYY-MM-DD
Pad(n, width) ==
    LET d(k) == DigitChars[((n \div k) % 10) + 1]
    IN  IF width = 4 THEN <<d(1000), d(100), d(10), d(1)>> ELSE <<d(10), d(1)>>

DateText(y, m, d) == Pad(y, 4) \o <<"-">> \o Pad(m, 2) \o <<"-">> \o Pad(d, 2)

Descriptions == {"Buy milk today"}
TitleTexts == {"Buy milk"}
TagTexts == {"errand"}
PriorityTexts == {"Low", "Medium", "High", "Urgent"}
DeadlineTexts == {DateText(2021, 1, 1), <<"s", "o", "o", "n">>}

\* the update requests the callers send: every status (with priority High
\* and no deadline), the other priorities (with status Done and a deadline),
\* and texts no create produces
UpdateRequests ==
    {[title |-> "Pay rent", description |-> "Pay the rent", status |-> st,
      priority |-> "High", deadline |-> None, tags |-> "home"] : st \in Status}
    \cup
    {[title |-> "Pay rent", description |-> "Pay the rent", status |-> "Done",
      priority |-> pr,
      deadline |-> Some([year |-> 2022, month |-> 2, day |-> 3, hour |-> 4,
                         minute |-> 5, second |-> 6]),
      tags |-> "home"] : pr \in {"Low", "Medium"}}

\* --------------------------------------------------------------- the state
VARIABLES
    todos,      \* the table todos: id -> row, status and priority as codes
    next_id,    \* the next value of the id column's sequence
    now,        \* the clock of the database server
    last,       \* the last call to the service and how it ended
    conv,       \* the last conversion applied and its result
    calls,      \* the calls in flight, one per caller, and where each stands
    issued,     \* the number of calls the callers have sent
    p_todos,    \* persistence.rs: the table todos, id -> row
    p_next_id,  \* persistence.rs: the next value of the id column's sequence
    p_now,      \* persistence.rs: the clock of the database server
    p_last,     \* persistence.rs: the last call to the repository
    u_users,    \* context.rs: UsersState.users, id -> UserWithoutId
    u_counter,  \* context.rs: UsersState.counter
    u_locks,    \* context.rs: who holds the users mutex and the counter mutex
    u_tasks,    \* context.rs: the call each caller has in flight
    u_issued    \* context.rs: the number of calls the callers have made

todoVars == <<todos, next_id, now, last, conv, calls, issued>>

persistenceVars == <<p_todos, p_next_id, p_now, p_last>>

usersVars == <<u_users, u_counter, u_locks, u_tasks, u_issued>>

vars == <<todos, next_id, now, last, conv, calls, issued, persistenceVars,
          usersVars>>

Ids == 1..MaxId

\* the tasks that handle requests at the same time, one per caller
Callers == {"a", "b"}

Returned(v) == [tag |-> "Returned", val |-> v]
Panicked(at) == [tag |-> "Panic", at |-> at]
NotCalled == [tag |-> "NotCalled"]

\* ---------------------------------------------------------- the table todos
\* The statements of todorepo.rs name the columns; the table's definition
\* gives id, status and created_at their defaults.
EmptyTable == [i \in {} |-> None]

StatusColumnDefault == 0

NextSerial(n) == n + 1

InsertRow(table, id, row) ==
    [i \in DOMAIN table \cup {id} |-> IF i = id THEN row ELSE table[i]]

DeleteRow(table, id) == [i \in DOMAIN table \ {id} |-> table[i]]

\* ------------------------------------------ services/todorepo: the mapping
\* the Todo built from a row; building it panics on a code no variant has
TodoOfRow(id, row) ==
    IF StatusFromI16(row.status) = Panic \/ PriorityFromI16(row.priority) = Panic
    THEN PanicOpt
    ELSE [id |-> id,
          title |-> row.title,
          description |-> IF IsSome(row.description)
                          THEN row.description.val ELSE "",
          status |-> StatusFromI16(row.status),
          created_at |-> row.created_at,
          deadline |-> row.deadline,
          tags |-> row.tags,
          priority |-> PriorityFromI16(row.priority)]

\* Each operation gives the table and the sequence after it and its outcome;
\* fault says that the statement failed (the store unreachable, a constraint).
Repo(table, seq, out) == [todos |-> table, next_id |-> seq, out |-> out]

\* a slip in the statement: ON CONFLICT (title) DO UPDATE, which writes over
\* the row that has the title already and returns it
repo_create_UpsertByTitle(table, seq, clock, create_todo, fault) ==
    IF fault
    THEN Repo(table, seq, Panicked("repo_create"))
    ELSE LET row == [title |-> create_todo.title,
                     description |-> Some(create_todo.description),
                     created_at |-> clock,
                     status |-> StatusColumnDefault,
                     priority |-> PriorityAsI16(create_todo.priority),
                     deadline |-> create_todo.deadline,
                     tags |-> create_todo.tags]
             same == {i \in DOMAIN table : table[i].title = create_todo.title}
             id == IF same = {} THEN seq ELSE CHOOSE i \in same : TRUE
         IN  Repo(InsertRow(table, id, row), NextSerial(seq),
                  Returned(TodoOfRow(id, row)))

\* a slip in the statement: the id is the number of rows plus one, not the
\* next value of the sequence
repo_create_CountId(table, seq, clock, create_todo, fault) ==
    IF fault
    THEN Repo(table, seq, Panicked("repo_create"))
    ELSE LET row == [title |-> create_todo.title,
                     description |-> Some(create_todo.description),
                     created_at |-> clock,
                     status |-> StatusColumnDefault,
                     priority |-> PriorityAsI16(create_todo.priority),
                     deadline |-> create_todo.deadline,
                     tags |-> create_todo.tags]
             id == Cardinality(DOMAIN table) + 1
         IN  Repo(InsertRow(table, id, row), NextSerial(seq),
                  Returned(TodoOfRow(id, row)))

\* PostgresTodoRepo::create
repo_create(table, seq, clock, create_todo, fault) ==
    IF fault
    THEN Repo(table, seq, Panicked("repo_create"))
    ELSE LET row == [title |-> create_todo.title,
                     description |-> Some(create_todo.description),
                     created_at |-> clock,
                     status |-> StatusColumnDefault,
                     priority |-> PriorityAsI16(create_todo.priority),
                     deadline |-> create_todo.deadline,
                     tags |-> create_todo.tags]
             todo == TodoOfRow(seq, row)
         IN  Repo(InsertRow(table, seq, row), NextSerial(seq),
                  IF todo = PanicOpt THEN Panicked("repo_create")
                  ELSE Returned(todo))

\* a slip in the SELECT: the deadline column is not read
repo_get_by_id_NoDeadline(table, seq, id, fault) ==
    IF fault \/ id \notin DOMAIN table
    THEN Repo(table, seq, Returned(None))
    ELSE LET todo == TodoOfRow(id, [table[id] EXCEPT !.deadline = None])
         IN  Repo(table, seq,
                  IF todo = PanicOpt THEN Panicked("repo_get_by_id")
                  ELSE Returned(Some(todo)))

\* PostgresTodoRepo::get_by_id
repo_get_by_id(table, seq, id, fault) ==
    IF fault \/ id \notin DOMAIN table
    THEN Repo(table, seq, Returned(None))
    ELSE LET todo == TodoOfRow(id, table[id])
         IN  Repo(table, seq,
                  IF todo = PanicOpt THEN Panicked("repo_get_by_id")
                  ELSE Returned(Some(todo)))

\* a slip in the comparison: rows_affected() >= 0
repo_delete_by_id_AlwaysTrue(table, seq, id, fault) ==
    IF fault
    THEN Repo(table, seq, Panicked("repo_delete_by_id"))
    ELSE Repo(DeleteRow(table, id), seq, Returned(TRUE))

\* a slip in the statement: the WHERE clause is missing
repo_delete_by_id_NoWhere(table, seq, id, fault) ==
    IF fault
    THEN Repo(table, seq, Panicked("repo_delete_by_id"))
    ELSE Repo(EmptyTable, seq, Returned(DOMAIN table # {}))

\* PostgresTodoRepo::delete_by_id
repo_delete_by_id(table, seq, id, fault) ==
    IF fault
    THEN Repo(table, seq, Panicked("repo_delete_by_id"))
    ELSE Repo(DeleteRow(table, id), seq, Returned(id \in DOMAIN table))

\* PostgresTodoRepo::get_all; the rows come in no stated order
repo_get_all(table, seq, fault) ==
    IF fault \/ \E i \in DOMAIN table : TodoOfRow(i, table[i]) = PanicOpt
    THEN Repo(table, seq, Panicked("repo_get_all"))
    ELSE Repo(table, seq, Returned({TodoOfRow(i, table[i]) : i \in DOMAIN table}))

\* a slip in the statement: an upsert, which inserts the row it did not find
repo_update_Upsert(table, seq, id, update_todo, fault) ==
    IF fault
    THEN Repo(table, seq, Returned(None))
    ELSE LET row == [title |-> update_todo.title,
                     description |-> Some(update_todo.description),
                     created_at |-> IF id \in DOMAIN table
                                    THEN table[id].created_at ELSE 0,
                     status |-> StatusAsI16(update_todo.status),
                     priority |-> PriorityAsI16(update_todo.priority),
                     deadline |-> update_todo.deadline,
                     tags |-> update_todo.tags]
             todo == TodoOfRow(id, row)
         IN  Repo(InsertRow(table, id, row), seq,
                  IF todo = PanicOpt THEN Panicked("repo_update")
                  ELSE Returned(Some(todo)))

\* a slip in the statement: the WHERE clause is missing, every row is written
repo_update_NoWhere(table, seq, id, update_todo, fault) ==
    IF fault \/ id \notin DOMAIN table
    THEN Repo(table, seq, Returned(None))
    ELSE LET written(row) == [row EXCEPT
                        !.title = update_todo.title,
                        !.description = Some(update_todo.description),
                        !.status = StatusAsI16(update_todo.status),
                        !.priority = PriorityAsI16(update_todo.priority),
                        !.deadline = update_todo.deadline,
                        !.tags = update_todo.tags]
             todo == TodoOfRow(id, written(table[id]))
         IN  Repo([i \in DOMAIN table |-> written(table[i])], seq,
                  IF todo = PanicOpt THEN Panicked("repo_update")
                  ELSE Returned(Some(todo)))

\* a slip in the statement: created_at is set again
repo_update_ResetsCreatedAt(table, seq, id, update_todo, fault) ==
    IF fault \/ id \notin DOMAIN table
    THEN Repo(table, seq, Returned(None))
    ELSE LET row == [title |-> update_todo.title,
                     description |-> Some(update_todo.description),
                     created_at |-> 0,
                     status |-> StatusAsI16(update_todo.status),
                     priority |-> PriorityAsI16(update_todo.priority),
                     deadline |-> update_todo.deadline,
                     tags |-> update_todo.tags]
             todo == TodoOfRow(id, row)
         IN  Repo(InsertRow(table, id, row), seq,
                  IF todo = PanicOpt THEN Panicked("repo_update")
                  ELSE Returned(Some(todo)))

\* a slip in the statement: deadline = COALESCE($6, deadline), which keeps
\* the stored deadline when the request has none
repo_update_CoalesceDeadline(table, seq, id, update_todo, fault) ==
    IF fault \/ id \notin DOMAIN table
    THEN Repo(table, seq, Returned(None))
    ELSE LET row == [title |-> update_todo.title,
                     description |-> Some(update_todo.description),
                     created_at |-> table[id].created_at,
                     status |-> StatusAsI16(update_todo.status),
                     priority |-> PriorityAsI16(update_todo.priority),
                     deadline |-> IF update_todo.deadline = None
                                  THEN table[id].deadline
                                  ELSE update_todo.deadline,
                     tags |-> update_todo.tags]
             todo == TodoOfRow(id, row)
         IN  Repo(InsertRow(table, id, row), seq,
                  IF todo = PanicOpt THEN Panicked("repo_update")
                  ELSE Returned(Some(todo)))

\* PostgresTodoRepo::update
repo_update(table, seq, id, update_todo, fault) ==
    IF fault \/ id \notin DOMAIN table
    THEN Repo(table, seq, Returned(None))
    ELSE LET row == [table[id] EXCEPT
                        !.title = update_todo.title,
                        !.description = Some(update_todo.description),
                        !.status = StatusAsI16(update_todo.status),
                        !.priority = PriorityAsI16(update_todo.priority),
                        !.deadline = update_todo.deadline,
                        !.tags = update_todo.tags]
             todo == TodoOfRow(id, row)
         IN  Repo(InsertRow(table, id, row), seq,
                  IF todo = PanicOpt THEN Panicked("repo_update")
                  ELSE Returned(Some(todo)))

\* ------------------------------------- controllers/todoservice: the service
Inferred(title, deadline, priority, tags) ==
    [title |-> title, deadline |-> deadline, priority |-> priority,
     tags |-> tags]

NoneInferred == Inferred(NotCalled, NotCalled, NotCalled, NotCalled)

\* how a call of create ends: the table and the sequence after it, its
\* outcome, and what each inference call gave (NotCalled: never made)
Stopped(table, seq, at, inferred) ==
    [todos |-> table, next_id |-> seq, out |-> Panicked(at),
     inferred |-> inferred]

Created(r, inferred) ==
    [todos |-> r.todos, next_id |-> r.next_id, out |-> r.out,
     inferred |-> inferred]

\* LiveTodoService::create, from the last line back to the first: the
\* CreateTodo is assembled and handed to the repository, ...
create_todo_built(table, seq, clock, description, fault, title, deadline, priority, tags) ==
    Created(repo_create(table, seq, clock,
                        [title |-> title.val,
                         description |-> description,
                         deadline |-> deadline,
                         tags |-> tags.val,
                         priority |-> priority.val],
                        fault),
            Inferred(title, deadline, priority, tags))

\* a slip in create: the tags are unwrapped after the record is written
create_after_tags_WritesFirst(table, seq, clock, description, fault, title, deadline, priority, tags) ==
    IF tags = PanicOpt
    THEN Stopped(table, seq, "infer_tags",
                 Inferred(title, deadline, priority, tags))
    ELSE IF tags = None
    THEN Stopped(repo_create(table, seq, clock,
                             [title |-> title.val,
                              description |-> description,
                              deadline |-> deadline,
                              tags |-> "",
                              priority |-> priority.val],
                             fault).todos,
                 seq, "create", Inferred(title, deadline, priority, tags))
    ELSE create_todo_built(table, seq, clock, description, fault,
                           title, deadline, priority, tags)

\* ... after infer_tags(..).await.unwrap(), ...
create_after_tags(table, seq, clock, description, fault, title, deadline, priority, tags) ==
    IF tags = PanicOpt
    THEN Stopped(table, seq, "infer_tags",
                 Inferred(title, deadline, priority, tags))
    ELSE IF tags = None
    THEN Stopped(table, seq, "create",
                 Inferred(title, deadline, priority, tags))
    ELSE create_todo_built(table, seq, clock, description, fault,
                           title, deadline, priority, tags)

\* ... after infer_priority(..).await.unwrap(), ...
create_after_priority(table, seq, clock, description, fault, title, deadline, priority, rTags) ==
    IF priority = PanicOpt
    THEN Stopped(table, seq, "infer_priority",
                 Inferred(title, deadline, priority, NotCalled))
    ELSE IF priority = None
    THEN Stopped(table, seq, "create",
                 Inferred(title, deadline, priority, NotCalled))
    ELSE create_after_tags(table, seq, clock, description, fault,
                           title, deadline, priority, infer_tags(rTags))

\* ... after infer_deadline(..).await, ...
create_after_deadline(table, seq, clock, description, fault, title, deadline, rPriority, rTags) ==
    IF deadline = PanicOpt
    THEN Stopped(table, seq, "infer_deadline",
                 Inferred(title, deadline, NotCalled, NotCalled))
    ELSE create_after_priority(table, seq, clock, description, fault,
                               title, deadline, infer_priority(rPriority),
                               rTags)

\* ... after infer_title(..).await.unwrap().
create_after_title(table, seq, clock, description, fault, title, rDeadline, rPriority, rTags) ==
    IF title = PanicOpt
    THEN Stopped(table, seq, "infer_title",
                 Inferred(title, NotCalled, NotCalled, NotCalled))
    ELSE IF title = None
    THEN Stopped(table, seq, "create",
                 Inferred(title, NotCalled, NotCalled, NotCalled))
    ELSE create_after_deadline(table, seq, clock, description, fault,
                               title, infer_deadline(rDeadline), rPriority,
                               rTags)

service_create(table, seq, clock, description, rTitle, rDeadline, rPriority, rTags, fault) ==
    create_after_title(table, seq, clock, description, fault,
                       infer_title(rTitle), rDeadline, rPriority, rTags)

\* LiveTodoService::get_by_id
service_get_by_id(table, seq, id, fault) == repo_get_by_id(table, seq, id, fault)

\* LiveTodoService::delete_by_id
service_delete_by_id(table, seq, id, fault) ==
    repo_delete_by_id(table, seq, id, fault)

\* LiveTodoService::get_all
service_get_all(table, seq, fault) == repo_get_all(table, seq, fault)

\* logic added to the service: a Todo that is Done is not updated
service_update_DoneIsFinal(table, seq, id, update_todo, fault) ==
    IF id \in DOMAIN table /\ table[id].status = 2
    THEN Repo(table, seq, Returned(None))
    ELSE repo_update(table, seq, id, update_todo, fault)

\* LiveTodoService::update
service_update(table, seq, id, update_todo, fault) ==
    repo_update(table, seq, id, update_todo, fault)

\* ------------------------------------------- controllers/handler: the calls
\* fault: the store failed during the call
Call(op, id, arg, started, inferred, fault, out) ==
    [op |-> op, id |-> id, arg |-> arg, started |-> started,
     inferred |-> inferred, fault |-> fault, out |-> out]

NoArg == [none |-> TRUE]

Finish(r, op, id, arg, started, inferred, fault) ==
    /\ todos' = r.todos
    /\ next_id' = r.next_id
    /\ last' = Call(op, id, arg, started, inferred, fault, r.out)
    /\ UNCHANGED <<conv, calls, issued, persistenceVars, usersVars>>

CreateEnds(description, r, fault) ==
    /\ now' = (IF next_id \in DOMAIN r.todos
               THEN r.todos[next_id].created_at ELSE now)
    /\ Finish(r, "create", 0, [description |-> description], now, r.inferred,
              fault)

\* the clock of the database server moves on by one instant while the handler
\* waits for the inference calls
Tick(clock) == clock + 1

\* Handler::create_todo. A response of the external service is drawn when the
\* call that asks for it is made; the INSERT reads the clock after the waits.
Create(description) ==
    /\ next_id <= MaxId
    /\ \E rT \in Answers(TitleTexts) :
       \E r1 \in {service_create(todos, next_id, now, description,
                                 rT, ApiErr, ApiErr, ApiErr, FALSE)} :
         IF r1.inferred.deadline = NotCalled
         THEN CreateEnds(description, r1, FALSE)
         ELSE
       \E rD \in Answers(DeadlineTexts) :
       \E r2 \in {service_create(todos, next_id, now, description,
                                 rT, rD, ApiErr, ApiErr, FALSE)} :
         IF r2.inferred.priority = NotCalled
         THEN CreateEnds(description, r2, FALSE)
         ELSE
       \E rP \in Answers(PriorityTexts) :
       \E r3 \in {service_create(todos, next_id, now, description,
                                 rT, rD, rP, ApiErr, FALSE)} :
         IF r3.inferred.tags = NotCalled
         THEN CreateEnds(description, r3, FALSE)
         ELSE
       \E rG \in Answers(TagTexts), fault \in BOOLEAN :
       \E r4 \in {service_create(todos, next_id, Tick(now), description,
                                 rT, rD, rP, rG, fault)} :
         CreateEnds(description, r4, fault)

\* Handler::get_by_id
GetById(id, fault) ==
    /\ \E r \in {service_get_by_id(todos, next_id, id, fault)} :
         Finish(r, "get_by_id", id, NoArg, now, NoneInferred, fault)
    /\ UNCHANGED now

\* Handler::delete_by_id
DeleteById(id, fault) ==
    /\ \E r \in {service_delete_by_id(todos, next_id, id, fault)} :
         Finish(r, "delete_by_id", id, NoArg, now, NoneInferred, fault)
    /\ UNCHANGED now

\* Handler::get_all
GetAll(fault) ==
    /\ \E r \in {service_get_all(todos, next_id, fault)} :
         Finish(r, "get_all", 0, NoArg, now, NoneInferred, fault)
    /\ UNCHANGED now

\* Handler::update
Update(id, update_todo, fault) ==
    /\ \E r \in {service_update(todos, next_id, id, update_todo, fault)} :
         Finish(r, "update", id, update_todo, now, NoneInferred, fault)
    /\ UNCHANGED now

\* a caller's call: the operation, where it stands (pc), its arguments, what
\* the inference calls gave so far, and its outcome once it is done
Task(op, pc, id, arg, inferred, out) ==
    [op |-> op, pc |-> pc, id |-> id, arg |-> arg, inferred |-> inferred,
     fault |-> FALSE, out |-> out]

Idle == Task("none", "idle", 0, NoArg, NoneInferred, NotCalled)

\* persistence.rs: a call of a handler and how it ended
PCall(op, id, arg, fault, out) ==
    [op |-> op, id |-> id, arg |-> arg, fault |-> fault, out |-> out]

\* context.rs: a mutex nobody holds
Free == "free"

\* context.rs: a caller's call to UsersState and where it stands
UsersTask(op, pc, id, arg, out) ==
    [op |-> op, pc |-> pc, id |-> id, arg |-> arg, out |-> out]

UsersIdle == UsersTask("none", "idle", 0, NoArg, NotCalled)

Init ==
    /\ todos = EmptyTable
    /\ next_id = 1
    /\ now = 0
    /\ last = Call("none", 0, NoArg, 0, NoneInferred, FALSE, Returned(None))
    /\ conv = [fn |-> "none"]
    /\ calls = [c \in Callers |-> Idle]
    /\ issued = 0
    /\ p_todos = EmptyTable
    /\ p_next_id = 1
    /\ p_now = 0
    /\ p_last = PCall("none", 0, NoArg, FALSE, Returned(None))
    /\ u_users = EmptyTable
    /\ u_counter = 0
    /\ u_locks = [users |-> Free, counter |-> Free]
    /\ u_tasks = [c \in Callers |-> UsersIdle]
    /\ u_issued = 0

Next ==
    \/ \E description \in Descriptions : Create(description)
    \/ \E id \in Ids, fault \in BOOLEAN : GetById(id, fault)
    \/ \E id \in Ids, fault \in BOOLEAN : DeleteById(id, fault)
    \/ \E fault \in BOOLEAN : GetAll(fault)
    \/ \E id \in Ids, update_todo \in UpdateRequests, fault \in BOOLEAN :
          Update(id, update_todo, fault)

Spec == Init /\ [][Next]_vars

\* ------------------------------------------------ the callers, concurrently
\* Every request is handled by a task of its own; a task gives way to the
\* others at each await: after each inference call and at the one statement
\* its repository operation sends. The store runs one statement at a time.
DescriptionOf(c) == IF c = "a" THEN "Buy milk today" ELSE "Call mum tonight"

\* the update requests of the concurrent callers: two that differ in every
\* field, and one with the status Aborted
ConcUpdateRequests ==
    {[title |-> "Pay rent", description |-> "Pay the rent", status |-> "Done",
      priority |-> "High",
      deadline |-> Some([year |-> 2022, month |-> 2, day |-> 3, hour |-> 4,
                         minute |-> 5, second |-> 6]),
      tags |-> "home"]}
    \cup
    {[title |-> "Call mum", description |-> "Call her", status |-> st,
      priority |-> "Low", deadline |-> None, tags |-> "family"]
       : st \in {"InProgress", "Aborted"}}

\* the callers whose call of op has not ended
InFlight(op) ==
    {c \in Callers : calls[c].op = op /\ calls[c].pc \notin {"idle", "done"}}

\* a caller sends a request once its last one has ended
Begin(c, task) ==
    /\ calls[c].pc \in {"idle", "done"}
    /\ issued < MaxCalls
    /\ calls' = [calls EXCEPT ![c] = task]
    /\ issued' = issued + 1
    /\ UNCHANGED <<todos, next_id, now, last, conv, persistenceVars,
                   usersVars>>

BeginCreate(c) ==
    /\ next_id + Cardinality(InFlight("create")) <= MaxId
    /\ Begin(c, Task("create", "infer_title", 0,
                     [description |-> DescriptionOf(c)], NoneInferred,
                     NotCalled))

BeginUpdate(c, id, update_todo) ==
    Begin(c, Task("update", "repo_update", id, update_todo, NoneInferred,
                  NotCalled))

BeginDelete(c, id) ==
    Begin(c, Task("delete_by_id", "repo_delete_by_id", id, NoArg,
                  NoneInferred, NotCalled))

\* LiveTodoService::create after the await of one inference call that gave
\* o: the call panicked, or gave None and is unwrapped, or create goes on
Awaited(task, field, o, unwrapped, nextpc) ==
    IF o = PanicOpt
    THEN [task EXCEPT !.inferred[field] = o, !.pc = "done",
                      !.out = Panicked(task.pc)]
    ELSE IF unwrapped /\ o = None
    THEN [task EXCEPT !.inferred[field] = o, !.pc = "done",
                      !.out = Panicked("create")]
    ELSE [task EXCEPT !.inferred[field] = o, !.pc = nextpc]

Resume(c, task) ==
    /\ calls' = [calls EXCEPT ![c] = task]
    /\ UNCHANGED <<todos, next_id, now, last, conv, issued, persistenceVars,
                   usersVars>>

AwaitTitle(c) ==
    /\ calls[c].pc = "infer_title"
    /\ \E resp \in Answers(TitleTexts) :
         Resume(c, Awaited(calls[c], "title", infer_title(resp), TRUE,
                           "infer_deadline"))

AwaitDeadline(c) ==
    /\ calls[c].pc = "infer_deadline"
    /\ \E resp \in Answers(DeadlineTexts) :
         Resume(c, Awaited(calls[c], "deadline", infer_deadline(resp), FALSE,
                           "infer_priority"))

\* a slip in create: the request is assembled without waiting for the tags
AwaitPriority_SkipsTags(c) ==
    /\ calls[c].pc = "infer_priority"
    /\ \E resp \in Answers(PriorityTexts) :
         Resume(c, Awaited(calls[c], "priority", infer_priority(resp), TRUE,
                           "repo_create"))

AwaitPriority(c) ==
    /\ calls[c].pc = "infer_priority"
    /\ \E resp \in Answers(PriorityTexts) :
         Resume(c, Awaited(calls[c], "priority", infer_priority(resp), TRUE,
                           "infer_tags"))

AwaitTags(c) ==
    /\ calls[c].pc = "infer_tags"
    /\ \E resp \in Answers(TagTexts) :
         Resume(c, Awaited(calls[c], "tags", infer_tags(resp), TRUE,
                           "repo_create"))

\* the CreateTodo that create assembles from what it awaited
CreateTodoOf(task) ==
    [title |-> task.inferred.title.val,
     description |-> task.arg.description,
     deadline |-> task.inferred.deadline,
     tags |-> task.inferred.tags.val,
     priority |-> task.inferred.priority.val]

\* the statement of a repository operation has run and the call ends
Ended(c, r, fault) ==
    /\ todos' = r.todos
    /\ next_id' = r.next_id
    /\ calls' = [calls EXCEPT ![c] = [@ EXCEPT !.pc = "done", !.fault = fault,
                                              !.out = r.out]]
    /\ UNCHANGED <<last, conv, issued, persistenceVars, usersVars>>

AwaitCreate(c, fault) ==
    /\ calls[c].pc = "repo_create"
    /\ \E r \in {repo_create(todos, next_id, Tick(now),
                             CreateTodoOf(calls[c]), fault)} :
         Ended(c, r, fault)
    /\ now' = IF fault THEN now ELSE Tick(now)

AwaitUpdate(c, fault) ==
    /\ calls[c].pc = "repo_update"
    /\ \E r \in {service_update(todos, next_id, calls[c].id, calls[c].arg,
                                fault)} : Ended(c, r, fault)
    /\ UNCHANGED now

AwaitDelete(c, fault) ==
    /\ calls[c].pc = "repo_delete_by_id"
    /\ \E r \in {service_delete_by_id(todos, next_id, calls[c].id, fault)} :
         Ended(c, r, fault)
    /\ UNCHANGED now

NextConc ==
    \/ \E c \in Callers : BeginCreate(c)
    \/ \E c \in Callers, id \in Ids, update_todo \in ConcUpdateRequests :
          BeginUpdate(c, id, update_todo)
    \/ \E c \in Callers, id \in Ids : BeginDelete(c, id)
    \/ \E c \in Callers : AwaitTitle(c)
    \/ \E c \in Callers : AwaitDeadline(c)
    \/ \E c \in Callers : AwaitPriority(c)
    \/ \E c \in Callers : AwaitTags(c)
    \/ \E c \in Callers, fault \in BOOLEAN : AwaitCreate(c, fault)
    \/ \E c \in Callers, fault \in BOOLEAN : AwaitUpdate(c, fault)
    \/ \E c \in Callers, fault \in BOOLEAN : AwaitDelete(c, fault)

SpecConc == Init /\ [][NextConc]_vars

\* ------------------------------------------------ the conversions, one by one
Codes == (0 - CodeRange)..CodeRange

DateInputs ==
    {DateText(y, m, d) : y \in {2021, 2024}, m \in {1, 2, 4, 12, 13},
                         d \in {0, 1, 28, 29, 30, 31, 32}}
    \cup {<<"s", "o", "o", "n">>, <<>>,
          <<"2", "0", "2", "1", "-", "1", "-", "1">>,
          <<" ">> \o DateText(2021, 1, 1),
          DateText(2021, 1, 1) \o <<" ">>,
          <<"+">> \o DateText(2021, 1, 1),
          <<"2", "1", "-", "0", "1", "-", "0", "1">>,
          <<"2", "0", "2", "1", "0", "1", "0", "1">>}

Conv(fn, input, code, output) ==
    [fn |-> fn, input |-> input, code |-> code, output |-> output]

StatusRoundTrip(s) ==
    conv' = Conv("status_round_trip", s, StatusIntoI16(s),
                 StatusFromI16(StatusIntoI16(s)))

PriorityRoundTrip(p) ==
    conv' = Conv("priority_round_trip", p, PriorityIntoI16(p),
                 PriorityFromI16(PriorityIntoI16(p)))

ArchStatusRoundTrip(s) ==
    conv' = Conv("arch_status_round_trip", s, ArchStatusIntoI16(s),
                 ArchStatusFromI16(ArchStatusIntoI16(s)))

ArchPriorityRoundTrip(p) ==
    conv' = Conv("arch_priority_round_trip", p, ArchPriorityIntoI16(p),
                 ArchPriorityFromI16(ArchPriorityIntoI16(p)))

StatusDecode(i) == conv' = Conv("status_from_i16", i, i, StatusFromI16(i))

PriorityDecode(i) == conv' = Conv("priority_from_i16", i, i, PriorityFromI16(i))

ArchStatusDecode(i) ==
    conv' = Conv("arch_status_from_i16", i, i, ArchStatusFromI16(i))

ArchPriorityDecode(i) ==
    conv' = Conv("arch_priority_from_i16", i, i, ArchPriorityFromI16(i))

ParseDate(s) == conv' = Conv("parse_date", s, 0, parse_date(s))

InferTitle(resp) == conv' = Conv("infer_title", resp, 0, infer_title(resp))

InferDeadline(resp) ==
    conv' = Conv("infer_deadline", resp, 0, infer_deadline(resp))

InferPriority(resp) ==
    conv' = Conv("infer_priority", resp, 0, infer_priority(resp))

InferTags(resp) == conv' = Conv("infer_tags", resp, 0, infer_tags(resp))

NextFn ==
    /\ \/ \E s \in Status : StatusRoundTrip(s)
       \/ \E p \in Priority : PriorityRoundTrip(p)
       \/ \E s \in ArchStatus : ArchStatusRoundTrip(s)
       \/ \E p \in Priority : ArchPriorityRoundTrip(p)
       \/ \E i \in Codes : StatusDecode(i)
       \/ \E i \in Codes : PriorityDecode(i)
       \/ \E i \in Codes : ArchStatusDecode(i)
       \/ \E i \in Codes : ArchPriorityDecode(i)
       \/ \E s \in DateInputs : ParseDate(s)
       \/ \E resp \in ApiResponses(TitleTexts) : InferTitle(resp)
       \/ \E resp \in ApiResponses(DeadlineTexts) : InferDeadline(resp)
       \/ \E resp \in ApiResponses(PriorityTexts) : InferPriority(resp)
       \/ \E resp \in ApiResponses(TagTexts) : InferTags(resp)
    /\ UNCHANGED <<todos, next_id, now, last, calls, issued, persistenceVars,
                   usersVars>>

SpecFn == Init /\ [][NextFn]_vars

\* ----------------------------------------- persistence.rs: TodoRepoPostgres
\* The todo list of the persistence exercise: title, description, done and
\* created_at, with updates that give each field or leave it out.
\* COALESCE($n, column) with $n bound to an Option
Coalesce(o, stored) == IF IsSome(o) THEN o.val ELSE stored

\* PrimitiveDateTime::to_string
DateTimeToString(t) == [string |-> t]

\* the Todo built from a row
PTodo(id, row) ==
    [id |-> id, title |-> row.title, description |-> row.description,
     done |-> row.done, created_at |-> DateTimeToString(row.created_at)]

Unit == [unit |-> TRUE]

\* TodoRepoPostgres::create
TodoRepoPostgres_create(table, seq, clock, title, description, fault) ==
    IF fault
    THEN Repo(table, seq, Panicked("create"))
    ELSE Repo(InsertRow(table, seq, [title |-> title,
                                     description |-> description,
                                     done |-> FALSE,
                                     created_at |-> clock]),
              NextSerial(seq), Returned(seq))

\* TodoRepoPostgres::get_all
TodoRepoPostgres_get_all(table, seq, fault) ==
    IF fault
    THEN Repo(table, seq, Panicked("get_all"))
    ELSE Repo(table, seq, Returned({PTodo(i, table[i]) : i \in DOMAIN table}))

\* TodoRepoPostgres::get
TodoRepoPostgres_get(table, seq, id, fault) ==
    IF fault
    THEN Repo(table, seq, Panicked("get"))
    ELSE Repo(table, seq,
              Returned(IF id \in DOMAIN table THEN Some(PTodo(id, table[id]))
                       ELSE None))

\* a slip in the statement: done = COALESCE($3, false)
TodoRepoPostgres_update_DoneDefaultsFalse(table, seq, id, title, description, done, fault) ==
    IF fault
    THEN Repo(table, seq, Panicked("update"))
    ELSE IF id \notin DOMAIN table
    THEN Repo(table, seq, Returned(Unit))
    ELSE Repo([table EXCEPT ![id] =
                  [@ EXCEPT !.title = Coalesce(title, @),
                            !.description = Coalesce(description, @),
                            !.done = Coalesce(done, FALSE)]],
              seq, Returned(Unit))

\* TodoRepoPostgres::update
TodoRepoPostgres_update(table, seq, id, title, description, done, fault) ==
    IF fault
    THEN Repo(table, seq, Panicked("update"))
    ELSE IF id \notin DOMAIN table
    THEN Repo(table, seq, Returned(Unit))
    ELSE Repo([table EXCEPT ![id] =
                  [@ EXCEPT !.title = Coalesce(title, @),
                            !.description = Coalesce(description, @),
                            !.done = Coalesce(done, @)]],
              seq, Returned(Unit))

\* TodoRepoPostgres::delete
TodoRepoPostgres_delete(table, seq, id, fault) ==
    IF fault
    THEN Repo(table, seq, Panicked("delete"))
    ELSE Repo(DeleteRow(table, id), seq, Returned(Unit))

\* the requests of the callers
PCreateTodos == {[title |-> "Buy milk", description |-> "today"]}

PUpdateTodos ==
    [title : {None, Some("Pay rent")},
     description : {None, Some("monthly")},
     done : {None, Some(TRUE), Some(FALSE)}]

PFinish(r, op, id, arg, fault) ==
    /\ p_todos' = r.todos
    /\ p_next_id' = r.next_id
    /\ p_last' = PCall(op, id, arg, fault, r.out)
    /\ UNCHANGED <<todos, next_id, now, last, conv, calls, issued, usersVars>>

\* create_todo
PCreateTodo(create, fault) ==
    /\ p_next_id <= MaxId
    /\ \E r \in {TodoRepoPostgres_create(p_todos, p_next_id, Tick(p_now),
                                         create.title, create.description,
                                         fault)} :
         PFinish(r, "create", 0, create, fault)
    /\ p_now' = IF fault THEN p_now ELSE Tick(p_now)

\* get_all_todos
PGetAllTodos(fault) ==
    /\ \E r \in {TodoRepoPostgres_get_all(p_todos, p_next_id, fault)} :
         PFinish(r, "get_all", 0, NoArg, fault)
    /\ UNCHANGED p_now

\* get_todo
PGetTodo(id, fault) ==
    /\ \E r \in {TodoRepoPostgres_get(p_todos, p_next_id, id, fault)} :
         PFinish(r, "get", id, NoArg, fault)
    /\ UNCHANGED p_now

\* update_todo
PUpdateTodo(id, update, fault) ==
    /\ \E r \in {TodoRepoPostgres_update(p_todos, p_next_id, id, update.title,
                                         update.description, update.done,
                                         fault)} :
         PFinish(r, "update", id, update, fault)
    /\ UNCHANGED p_now

\* delete_todo
PDeleteTodo(id, fault) ==
    /\ \E r \in {TodoRepoPostgres_delete(p_todos, p_next_id, id, fault)} :
         PFinish(r, "delete", id, NoArg, fault)
    /\ UNCHANGED p_now

NextPersistence ==
    \/ \E create \in PCreateTodos, fault \in BOOLEAN : PCreateTodo(create, fault)
    \/ \E fault \in BOOLEAN : PGetAllTodos(fault)
    \/ \E id \in Ids, fault \in BOOLEAN : PGetTodo(id, fault)
    \/ \E id \in Ids, update \in PUpdateTodos, fault \in BOOLEAN :
          PUpdateTodo(id, update, fault)
    \/ \E id \in Ids, fault \in BOOLEAN : PDeleteTodo(id, fault)

SpecPersistence == Init /\ [][NextPersistence]_vars

\* ------------------------------------------------- context.rs: UsersState
\* The users of the shared-state exercise: a map behind one mutex and a
\* counter behind another. Each request runs in a task of its own; a task
\* gives way where it awaits a lock.
User(id, user) == [id |-> id, name |-> user.name, email |-> user.email]

MissingUser(id) == [missing_user |-> id]

ResultOk(x) == [tag |-> "Ok", val |-> x]
ResultErr(e) == [tag |-> "Err", err |-> e]

\* Vec<User>, in no order of its own: the map is a HashMap
UserList(list) == [list |-> list]

\* the body of the answer of the create_user handler
CreateUserResponse(id) == [id |-> id]

Updated(users, out) == [users |-> users, out |-> out]

\* UsersState::get_users, under the users lock
UsersState_get_users(users) ==
    Updated(users, UserList({User(i, users[i]) : i \in DOMAIN users}))

\* UsersState::get_user, under the users lock
UsersState_get_user(users, id) ==
    Updated(users, IF id \in DOMAIN users THEN Some(User(id, users[id]))
                   ELSE None)

\* a slip in update_user: the email is looked at only when a name is given
UsersState_update_user_Nested(users, id, update) ==
    IF id \in DOMAIN users
    THEN Updated([users EXCEPT ![id] =
                    IF IsSome(update.name)
                    THEN [name |-> update.name.val,
                          email |-> IF IsSome(update.email)
                                    THEN update.email.val ELSE @.email]
                    ELSE @],
                 ResultOk(Unit))
    ELSE Updated(users, ResultErr(MissingUser(id)))

\* UsersState::update_user, under the users lock
UsersState_update_user(users, id, update) ==
    IF id \in DOMAIN users
    THEN Updated([users EXCEPT ![id] =
                    [name |-> IF IsSome(update.name)
                              THEN update.name.val ELSE @.name,
                     email |-> IF IsSome(update.email)
                               THEN update.email.val ELSE @.email]],
                 ResultOk(Unit))
    ELSE Updated(users, ResultErr(MissingUser(id)))

\* a slip in delete_user: the result of remove is not looked at
UsersState_delete_user_AlwaysOk(users, id) ==
    Updated(DeleteRow(users, id), ResultOk(Unit))

\* UsersState::delete_user, under the users lock
UsersState_delete_user(users, id) ==
    IF id \in DOMAIN users
    THEN Updated(DeleteRow(users, id), ResultOk(Unit))
    ELSE Updated(users, ResultErr(MissingUser(id)))

\* the requests of the callers
NewUsers == {[name |-> "Ann", email |-> "ann@example.org"]}

UpdateUserRequests ==
    [name : {None, Some("Bob")}, email : {None, Some("bob@example.org")}]

UsersRequests ==
    {UsersTask("get_users", "lock_users", 0, NoArg, NotCalled)}
    \cup {UsersTask("get_user", "lock_users", id, NoArg, NotCalled) : id \in Ids}
    \cup {UsersTask("create_user", "lock_users", 0, user, NotCalled)
            : user \in NewUsers}
    \cup {UsersTask("update_user", "lock_users", id, update, NotCalled)
            : id \in Ids, update \in UpdateUserRequests}
    \cup {UsersTask("delete_user", "lock_users", id, NoArg, NotCalled)
            : id \in Ids}

\* a handler is called: its first await is self.users.lock(). The model
\* stops sending create_user when the ids in use and in the making reach MaxId.
UsersCall(c, request) ==
    /\ u_tasks[c].pc \in {"idle", "done"}
    /\ u_issued < MaxUsersCalls
    /\ request.op = "create_user"
       => u_counter + Cardinality({d \in Callers :
                                      /\ u_tasks[d].op = "create_user"
                                      /\ u_tasks[d].pc \notin {"idle", "done"}})
            < MaxId
    /\ u_tasks' = [u_tasks EXCEPT ![c] = request]
    /\ u_issued' = u_issued + 1
    /\ UNCHANGED <<todoVars, persistenceVars, u_users, u_counter, u_locks>>

\* a slip: try_lock, and the call goes on whether or not it got the lock
LockUsers_TryLock(c) ==
    /\ u_tasks[c].pc = "lock_users"
    /\ u_locks' = [u_locks EXCEPT !.users = c]
    /\ u_tasks' = [u_tasks EXCEPT ![c].pc = "users_locked"]
    /\ UNCHANGED <<todoVars, persistenceVars, u_issued, u_users, u_counter>>

\* self.users.lock().await returns the guard
LockUsers(c) ==
    /\ u_tasks[c].pc = "lock_users"
    /\ u_locks.users = Free
    /\ u_locks' = [u_locks EXCEPT !.users = c]
    /\ u_tasks' = [u_tasks EXCEPT ![c].pc = "users_locked"]
    /\ UNCHANGED <<todoVars, persistenceVars, u_issued, u_users, u_counter>>

\* the body of a method runs under the users lock; the guard is dropped
\* when the method returns
UsersReturn(c, r) ==
    /\ u_users' = r.users
    /\ u_tasks' = [u_tasks EXCEPT ![c].pc = "done", ![c].arg = NoArg,
                                  ![c].out = r.out]
    /\ u_locks' = [u_locks EXCEPT !.users = Free]
    /\ UNCHANGED <<todoVars, persistenceVars, u_issued, u_counter>>

GetUsers(c) ==
    /\ u_tasks[c].pc = "users_locked" /\ u_tasks[c].op = "get_users"
    /\ UsersReturn(c, UsersState_get_users(u_users))

GetUser(c) ==
    /\ u_tasks[c].pc = "users_locked" /\ u_tasks[c].op = "get_user"
    /\ UsersReturn(c, UsersState_get_user(u_users, u_tasks[c].id))

UpdateUser(c) ==
    /\ u_tasks[c].pc = "users_locked" /\ u_tasks[c].op = "update_user"
    /\ UsersReturn(c, UsersState_update_user(u_users, u_tasks[c].id,
                                             u_tasks[c].arg))

DeleteUser(c) ==
    /\ u_tasks[c].pc = "users_locked" /\ u_tasks[c].op = "delete_user"
    /\ UsersReturn(c, UsersState_delete_user(u_users, u_tasks[c].id))

\* create_user: self.counter.lock().await returns the guard
LockCounter(c) ==
    /\ u_tasks[c].pc = "users_locked" /\ u_tasks[c].op = "create_user"
    /\ u_locks.counter = Free
    /\ u_locks' = [u_locks EXCEPT !.counter = c]
    /\ u_tasks' = [u_tasks EXCEPT ![c].pc = "counter_locked"]
    /\ UNCHANGED <<todoVars, persistenceVars, u_issued, u_users, u_counter>>

\* a slip: the id is the counter before the increment
IncrementCounter_OldValue(c) ==
    /\ u_tasks[c].pc = "counter_locked"
    /\ u_counter' = u_counter + 1
    /\ u_locks' = [u_locks EXCEPT !.counter = Free]
    /\ u_tasks' = [u_tasks EXCEPT ![c].pc = "insert", ![c].id = u_counter]
    /\ UNCHANGED <<todoVars, persistenceVars, u_issued, u_users>>

\* create_user: *counter_guard += 1; the id is the new value; the counter
\* guard is dropped at the end of the block
IncrementCounter(c) ==
    /\ u_tasks[c].pc = "counter_locked"
    /\ u_counter' = u_counter + 1
    /\ u_locks' = [u_locks EXCEPT !.counter = Free]
    /\ u_tasks' = [u_tasks EXCEPT ![c].pc = "insert", ![c].id = u_counter + 1]
    /\ UNCHANGED <<todoVars, persistenceVars, u_issued, u_users>>

\* create_user: guard.insert(id, user); id, which the handler answers with
InsertUser(c) ==
    /\ u_tasks[c].pc = "insert"
    /\ UsersReturn(c, Updated(InsertRow(u_users, u_tasks[c].id, u_tasks[c].arg),
                              CreateUserResponse(u_tasks[c].id)))

NextUsers ==
    \/ \E c \in Callers, request \in UsersRequests : UsersCall(c, request)
    \/ \E c \in Callers : LockUsers(c)
    \/ \E c \in Callers : GetUsers(c)
    \/ \E c \in Callers : GetUser(c)
    \/ \E c \in Callers : UpdateUser(c)
    \/ \E c \in Callers : DeleteUser(c)
    \/ \E c \in Callers : LockCounter(c)
    \/ \E c \in Callers : IncrementCounter(c)
    \/ \E c \in Callers : InsertUser(c)

SpecUsers == Init /\ [][NextUsers]_vars

\* The runtime polls every task that can go on, and the mutex of tokio hands
\* the lock to its waiters in the order they came: a task that waits for the
\* users lock gets it.
SpecUsersFair ==
    /\ SpecUsers
    /\ \A c \in Callers :
        /\ SF_vars(LockUsers(c))
        /\ WF_vars(GetUsers(c) \/ GetUser(c) \/ UpdateUser(c) \/ DeleteUser(c))
        /\ WF_vars(LockCounter(c) \/ IncrementCounter(c) \/ InsertUser(c))

\* ================================================================ the claims
\* the text of a response, when it has one
HasText(resp) ==
    resp.tag = "Ok" /\ resp.choices # <<>> /\ IsSome(Head(resp.choices))

TextOf(resp) == Head(resp.choices).val

\* a text of the form YYYY-MM-DD that names a day of the calendar
IsYmdText(s) ==
    /\ Len(s) = 10
    /\ \A k \in {1, 2, 3, 4, 6, 7, 9, 10} : IsDigit(s[k])
    /\ s[5] = "-" /\ s[8] = "-"
    /\ ValidYmd(ToNumber(SubSeq(s, 1, 4)), ToNumber(SubSeq(s, 6, 7)),
                ToNumber(SubSeq(s, 9, 10)))

InferFns == {"infer_title", "infer_deadline", "infer_priority", "infer_tags"}

Absent(o) == o = None \/ o = NotCalled

\* C1: when every inference call returns absent, create still returns a Todo,
\* with priority Medium, no deadline, empty tags and a non-empty title.
C1_CreateSucceedsWithoutInference ==
    (/\ last.op = "create"
     /\ ~last.fault
     /\ last.inferred.title = None
     /\ Absent(last.inferred.deadline)
     /\ Absent(last.inferred.priority)
     /\ Absent(last.inferred.tags))
    => /\ last.out.tag = "Returned"
       /\ last.out.val.priority = "Medium"
       /\ last.out.val.deadline = None
       /\ last.out.val.tags = ""
       /\ last.out.val.title # ""

\* C2: a response text outside the grammar (a priority that is not exactly
\* Low, Medium or High, a deadline that is not a YYYY-MM-DD date) makes
\* infer_priority and infer_deadline return absent, never panic.
C2_ParseFailureIsAbsent ==
    /\ (/\ conv.fn = "infer_priority"
        /\ HasText(conv.input)
        /\ TextOf(conv.input) \notin {"Low", "Medium", "High"})
       => conv.output = None
    /\ (/\ conv.fn = "infer_deadline"
        /\ HasText(conv.input)
        /\ ~IsYmdText(TextOf(conv.input)))
       => conv.output = None

\* C3: when the external call itself fails, each of the four inference
\* operations returns absent, never panics.
C3_TransportFailureIsAbsent ==
    (conv.fn \in InferFns /\ conv.input = ApiErr) => conv.output = None

\* C4: with title, priority and tags inferred (deadline inferred or absent)
\* and the store working, create returns a Todo with exactly the inferred
\* title, priority, tags and deadline, the caller's description, the initial
\* status, a created_at not older than the start of the call, and an id that
\* no stored Todo had when the call began.
InferredPresent(inf) ==
    /\ IsSome(inf.title) /\ IsSome(inf.priority) /\ IsSome(inf.tags)
    /\ inf.deadline.tag \in {"Some", "None"}

C4_CreateState ==
    (last.op = "create" /\ InferredPresent(last.inferred) /\ ~last.fault)
    => /\ last.out.tag = "Returned"
       /\ last.out.val.title = last.inferred.title.val
       /\ last.out.val.priority = last.inferred.priority.val
       /\ last.out.val.tags = last.inferred.tags.val
       /\ last.out.val.deadline = last.inferred.deadline
       /\ last.out.val.description = last.arg.description
       /\ last.out.val.status = "Todo"
       /\ last.out.val.created_at >= last.started

C4_CreateStep ==
    (last'.op = "create" /\ last'.out.tag = "Returned")
    => /\ last'.out.val.id \notin DOMAIN todos
       /\ last'.out.val.id \in DOMAIN todos'

C4_CreateReturnsInferred == [](C4_CreateState) /\ [][C4_CreateStep]_vars

C4_Witness ==
    /\ last.op = "create" /\ last.out.tag = "Returned"
    /\ last.inferred.priority = Some("Low")
    /\ last.inferred.deadline = None
    /\ last.out.val.id = 2

\* C5: a get_by_id of the id that create just returned, with the store
\* working, returns a present Todo equal to the one create returned.
C5_RoundTripStep ==
    (/\ last.op = "create" /\ last.out.tag = "Returned"
     /\ last'.op = "get_by_id" /\ last'.id = last.out.val.id
     /\ ~last'.fault)
    => last'.out = Returned(Some(last.out.val))

C5_CreateGetRoundTrip == [][C5_RoundTripStep]_vars

C5_Witness ==
    /\ last.op = "get_by_id" /\ ~last.fault
    /\ last.out.tag = "Returned" /\ IsSome(last.out.val)
    /\ last.out.val.val.status = "Todo"
    /\ IsSome(last.out.val.val.deadline)

\* C6: update of a stored id returns a present Todo whose six mutable fields
\* equal the request's, for every status and priority, and a following
\* get_by_id returns that Todo.
C6_UpdateState ==
    (last.op = "update" /\ ~last.fault /\ last.id \in DOMAIN todos)
    => /\ last.out.tag = "Returned"
       /\ IsSome(last.out.val)
       /\ last.out.val.val.title = last.arg.title
       /\ last.out.val.val.description = last.arg.description
       /\ last.out.val.val.status = last.arg.status
       /\ last.out.val.val.priority = last.arg.priority
       /\ last.out.val.val.deadline = last.arg.deadline
       /\ last.out.val.val.tags = last.arg.tags

C6_UpdateThenGet ==
    (/\ last.op = "update" /\ ~last.fault /\ last.id \in DOMAIN todos
     /\ last'.op = "get_by_id" /\ last'.id = last.id /\ ~last'.fault)
    => last'.out = last.out

C6_UpdateReplacesAllFields == [](C6_UpdateState) /\ [][C6_UpdateThenGet]_vars

\* C7: update of an id that is not stored returns absent and changes nothing.
C7_UpdateAbsentStep ==
    (last'.op = "update" /\ last'.id \notin DOMAIN todos)
    => /\ last'.out = Returned(None)
       /\ todos' = todos
       /\ next_id' = next_id

C7_UpdateAbsentIsNoOp == [][C7_UpdateAbsentStep]_vars

C7_Witness ==
    /\ last.op = "update" /\ ~last.fault
    /\ last.id \notin DOMAIN todos
    /\ last.out = Returned(None)
    /\ DOMAIN todos # {}

\* C8: delete_by_id of a stored id returns true and removes it, a second
\* delete of that id returns false, and get_by_id of it returns absent after
\* each; deleting an absent id is no error.
C8_DeleteStep ==
    /\ (last'.op = "delete_by_id" /\ ~last'.fault)
       => /\ last'.out = Returned(last'.id \in DOMAIN todos)
          /\ last'.id \notin DOMAIN todos'
    /\ (/\ last.op = "delete_by_id" /\ last.out = Returned(TRUE)
        /\ last'.op = "delete_by_id" /\ last'.id = last.id /\ ~last'.fault)
       => last'.out = Returned(FALSE)
    /\ (last'.op = "get_by_id" /\ last'.id \notin DOMAIN todos)
       => last'.out = Returned(None)

C8_DeleteIsIdempotent == [][C8_DeleteStep]_vars

C8_Witness ==
    /\ last.op = "delete_by_id" /\ ~last.fault
    /\ last.out = Returned(FALSE)
    /\ last.id < next_id
    /\ last.id \notin DOMAIN todos

\* C9: a failure of the store during a repository operation reaches the
\* caller as an error, never as a returned value; get_by_id and update do not
\* return absent because the store failed.
C9_StoreFailureIsAnError == last.fault => last.out.tag # "Returned"

\* C10: encoding a Status or a Priority variant to its integer code and
\* decoding the code gives the variant back.
RoundTripFns ==
    {"status_round_trip", "priority_round_trip", "arch_status_round_trip",
     "arch_priority_round_trip"}

C10_EnumRoundTrip == conv.fn \in RoundTripFns => conv.output = conv.input

C10_Witness ==
    /\ conv.fn = "status_round_trip"
    /\ conv.input = "Aborted" /\ conv.code = -1 /\ conv.output = "Aborted"

\* C11: the integer that create and update write to the store for a status
\* or a priority is the code the enum-to-code mapping gives the variant, and
\* decoding the stored value gives back the variant that was written.
C11_StoredCodeDecodes ==
    /\ (last.op = "update" /\ ~last.fault /\ last.id \in DOMAIN todos)
       => /\ todos[last.id].status = StatusIntoI16(last.arg.status)
          /\ StatusFromI16(todos[last.id].status) = last.arg.status
          /\ todos[last.id].priority = PriorityIntoI16(last.arg.priority)
          /\ PriorityFromI16(todos[last.id].priority) = last.arg.priority
    /\ (last.op = "create" /\ last.out.tag = "Returned")
       => /\ todos[last.out.val.id].priority
                = PriorityIntoI16(last.inferred.priority.val)
          /\ PriorityFromI16(todos[last.out.val.id].priority)
                = last.inferred.priority.val

\* C12: the codes of Status and of Priority are the integers 0, 1, 2, ... one
\* per variant: each variant's code is in the range from 0 to the number of
\* variants less one, and no other variant has it.
C12_CodesFromZero ==
    /\ conv.fn = "status_round_trip"
       => /\ conv.code \in 0..(Cardinality(Status) - 1)
          /\ \A t \in Status \ {conv.input} : StatusIntoI16(t) # conv.code
    /\ conv.fn = "priority_round_trip"
       => /\ conv.code \in 0..(Cardinality(Priority) - 1)
          /\ \A t \in Priority \ {conv.input} : PriorityIntoI16(t) # conv.code

\* C13: decoding an integer that is the code of no variant, as a Status or as
\* a Priority, panics: it gives no variant and no default.
StatusCodes == {StatusIntoI16(s) : s \in Status}
PriorityCodes == {PriorityIntoI16(p) : p \in Priority}

C13_BadCodePanics ==
    /\ (conv.fn = "status_from_i16" /\ conv.input \notin StatusCodes)
       => conv.output = Panic
    /\ (conv.fn = "priority_from_i16" /\ conv.input \notin PriorityCodes)
       => conv.output = Panic

C13_Witness ==
    /\ conv.fn = "status_from_i16"
    /\ conv.input = 3 /\ conv.output = Panic

\* C14: in every reachable state of the store no two stored Todos have the
\* same id and every stored Todo has a created_at: get_all never returns two
\* Todos with one id, every row carries an instant of the clock, and an id
\* given to a new row was never given to a row before.
C14_State ==
    /\ \A i \in DOMAIN todos : i < next_id /\ todos[i].created_at \in 1..now
    /\ (last.op = "get_all" /\ last.out.tag = "Returned")
       => /\ \A x, y \in last.out.val : x.id = y.id => x = y
          /\ {x.id : x \in last.out.val} = DOMAIN todos
          /\ \A x \in last.out.val : x.created_at \in 1..now

C14_Step ==
    /\ \A i \in DOMAIN todos' \ DOMAIN todos : i >= next_id
    /\ (last'.op = "create" /\ last'.out.tag = "Returned")
       => Cardinality(DOMAIN todos') = Cardinality(DOMAIN todos) + 1

C14_UniqueIds == [](C14_State) /\ [][C14_Step]_vars

C14_Witness ==
    /\ last.op = "get_all" /\ last.out.tag = "Returned"
    /\ Cardinality(last.out.val) = 2
    /\ \E x \in last.out.val : x.status = "Done"

\* C15: two concurrent create calls with different descriptions, whose
\* inference calls gave values and whose inserts the store ran, both return a
\* Todo, the two ids differ, and a get_all after both returned holds both.
C15_ConcurrentCreates ==
    (\A c \in Callers :
        /\ calls[c].op = "create" /\ calls[c].pc = "done"
        /\ InferredPresent(calls[c].inferred) /\ ~calls[c].fault)
    => /\ \A c \in Callers : calls[c].out.tag = "Returned"
       /\ calls["a"].out.val.id # calls["b"].out.val.id
       /\ calls["a"].out.val.description # calls["b"].out.val.description
       /\ issued = 2
          => \E r \in {service_get_all(todos, next_id, FALSE)} :
               /\ r.out.tag = "Returned"
               /\ \A c \in Callers : calls[c].out.val \in r.out.val

C15_Witness ==
    /\ issued = 2
    /\ \A c \in Callers : calls[c].op = "create" /\ calls[c].out.tag = "Returned"
    /\ calls["a"].out.val.id = 2
    /\ calls["b"].out.val.id = 1

\* C16: no step changes the created_at of a stored Todo, and an update keeps
\* every id stored under its id and returns the Todo with the id it was
\* addressed by and the created_at of its creation: update changes title,
\* description, status, priority, deadline and tags only.
C16_Step ==
    /\ \A i \in DOMAIN todos \cap DOMAIN todos' :
          todos'[i].created_at = todos[i].created_at
    /\ last'.op = "update"
       => /\ DOMAIN todos' = DOMAIN todos
          /\ \A i \in DOMAIN todos \ {last'.id} : todos'[i] = todos[i]
          /\ (last'.out.tag = "Returned" /\ IsSome(last'.out.val))
             => /\ last'.out.val.val.id = last'.id
                /\ last'.out.val.val.created_at = todos[last'.id].created_at

C16_UpdateKeepsIdAndCreatedAt == [][C16_Step]_vars

C16_Witness ==
    /\ last.op = "update" /\ last.out.tag = "Returned" /\ IsSome(last.out.val)
    /\ last.out.val.val.created_at < now
    /\ last.out.val.val.title = "Pay rent"

\* C17: get_by_id, delete_by_id, get_all and update of the service do what
\* the repository's operation of the same name does on the same arguments, and
\* nothing else: the same table and sequence afterwards, the same result.
PassedThrough(r) ==
    todos' = r.todos /\ next_id' = r.next_id /\ last'.out = r.out

C17_Step ==
    /\ last'.op = "get_by_id"
       => PassedThrough(repo_get_by_id(todos, next_id, last'.id, last'.fault))
    /\ last'.op = "delete_by_id"
       => PassedThrough(repo_delete_by_id(todos, next_id, last'.id,
                                          last'.fault))
    /\ last'.op = "get_all"
       => PassedThrough(repo_get_all(todos, next_id, last'.fault))
    /\ last'.op = "update"
       => PassedThrough(repo_update(todos, next_id, last'.id, last'.arg,
                                    last'.fault))

C17_PassThrough == [][C17_Step]_vars

C17_Witness ==
    /\ last.op = "update" /\ ~last.fault
    /\ last.out.tag = "Returned" /\ IsSome(last.out.val)
    /\ last.arg.status = "InProgress"
    /\ last.out.val.val.status = "InProgress"

\* C18: with the store working, get_all returns one Todo for each id that is
\* stored, each the Todo that get_by_id of its id returns, and get_by_id of
\* any other id returns absent.
C18_GetAllReturnsEveryRecord ==
    /\ (last.op = "get_all" /\ ~last.fault)
       => /\ last.out.tag = "Returned"
          /\ {x.id : x \in last.out.val} = DOMAIN todos
          /\ Cardinality(last.out.val) = Cardinality(DOMAIN todos)
          /\ \A x \in last.out.val :
                service_get_by_id(todos, next_id, x.id, FALSE).out
                    = Returned(Some(x))
    /\ (last.op = "get_by_id" /\ ~last.fault)
       => IF last.id \in DOMAIN todos
          THEN last.out.tag = "Returned" /\ IsSome(last.out.val)
          ELSE last.out = Returned(None)

\* C19: the table changes through create, which adds one row, update, which
\* changes the row it addresses, and delete_by_id, which removes the row it
\* addresses, and through nothing else: get_by_id, get_all and a create that
\* stops in an inference call leave it as it was, and an id that was deleted
\* is never stored again.
C19_Step ==
    /\ last'.op \in {"get_by_id", "get_all"}
       => todos' = todos /\ next_id' = next_id
    /\ (last'.op = "create" /\ last'.out.tag = "Panic")
       => todos' = todos /\ next_id' = next_id
    /\ (last'.op = "create" /\ last'.out.tag = "Returned")
       => /\ DOMAIN todos' = DOMAIN todos \cup {last'.out.val.id}
          /\ \A i \in DOMAIN todos : todos'[i] = todos[i]
    /\ last'.op = "update"
       => /\ DOMAIN todos' = DOMAIN todos
          /\ \A i \in DOMAIN todos \ {last'.id} : todos'[i] = todos[i]
    /\ last'.op = "delete_by_id"
       => /\ DOMAIN todos' = (IF last'.fault THEN DOMAIN todos
                               ELSE DOMAIN todos \ {last'.id})
          /\ \A i \in DOMAIN todos' : todos'[i] = todos[i]
    /\ \A i \in 1..(next_id - 1) : i \notin DOMAIN todos => i \notin DOMAIN todos'

C19_OnlyWritesChangeTheStore == [][C19_Step]_vars

C19_Witness ==
    /\ last.op = "delete_by_id" /\ last.out = Returned(TRUE)
    /\ DOMAIN todos = {2}

\* C20: after two concurrent updates of one stored id have both returned the
\* Todo, the stored row has the title, description, status, priority,
\* deadline and tags of one of the two requests, all six of the same request,
\* and each call returned the row as its own request wrote it.
SameMutableFields(todo, update_todo) ==
    /\ todo.title = update_todo.title
    /\ todo.description = update_todo.description
    /\ todo.status = update_todo.status
    /\ todo.priority = update_todo.priority
    /\ todo.deadline = update_todo.deadline
    /\ todo.tags = update_todo.tags

BothUpdated(id) ==
    \A c \in Callers :
        /\ calls[c].op = "update" /\ calls[c].pc = "done" /\ calls[c].id = id
        /\ calls[c].out.tag = "Returned" /\ IsSome(calls[c].out.val)

C20_LastWriterWins ==
    \A id \in Ids :
        BothUpdated(id)
        => /\ id \in DOMAIN todos
           /\ \E c \in Callers :
                 SameMutableFields(TodoOfRow(id, todos[id]), calls[c].arg)
           /\ \A c \in Callers :
                 /\ SameMutableFields(calls[c].out.val.val, calls[c].arg)
                 /\ calls[c].out.val.val.id = id

C20_Witness ==
    /\ BothUpdated(1)
    /\ calls["a"].arg.title = "Pay rent"
    /\ calls["b"].arg.title = "Call mum"
    /\ todos[1].title = "Pay rent"

\* C21: when a caller's update or delete of an id A runs, among any calls
\* of the other callers, the record of every other id B stays as it was (and
\* an id that is not stored stays so), the sequence and the clock stay, and
\* the statement another caller is about to run on an id B gives B the same
\* row and the caller the same result as if the operation on A had not run.
RowAt(table, id) == IF id \in DOMAIN table THEN Some(table[id]) ELSE None

\* what the statement a task waits to run would give, on a table
Pending(task, table) ==
    IF task.pc = "repo_update"
    THEN service_update(table, next_id, task.id, task.arg, FALSE)
    ELSE service_delete_by_id(table, next_id, task.id, FALSE)

SameFor(task, r1, r2) ==
    r1.out = r2.out /\ RowAt(r1.todos, task.id) = RowAt(r2.todos, task.id)

C21_Step ==
    \A c \in Callers :
       (/\ calls[c].pc \in {"repo_update", "repo_delete_by_id"}
        /\ calls'[c].pc = "done")
       => /\ \A i \in Ids \ {calls[c].id} : RowAt(todos', i) = RowAt(todos, i)
          /\ next_id' = next_id /\ now' = now
          /\ \A d \in Callers \ {c} :
                (/\ calls[d].pc \in {"repo_update", "repo_delete_by_id"}
                 /\ calls[d].id # calls[c].id)
                => SameFor(calls[d], Pending(calls[d], todos'),
                           Pending(calls[d], todos))

C21_DifferentIdsAreIndependent == [][C21_Step]_vars

C21_Witness ==
    /\ calls["a"].op = "update" /\ calls["a"].pc = "done"
    /\ calls["a"].id = 1
    /\ calls["a"].out.tag = "Returned" /\ IsSome(calls["a"].out.val)
    /\ calls["b"].op = "create" /\ calls["b"].out.tag = "Returned"
    /\ calls["b"].out.val.id = 2
    /\ RowAt(todos, 2) # None /\ todos[2].title = "Buy milk"

\* C22: within one create call the repository's create is issued only after
\* infer_title, infer_deadline, infer_priority and infer_tags have all
\* completed, it is issued at most once, and the Todo it gives has the four
\* values the inference calls gave, whatever the other callers did meanwhile.
C22_State ==
    \A c \in Callers :
       calls[c].op = "create"
       => /\ calls[c].pc = "repo_create" => InferredPresent(calls[c].inferred)
          /\ (calls[c].pc = "done" /\ calls[c].out.tag = "Returned")
             => /\ InferredPresent(calls[c].inferred)
                /\ calls[c].out.val.title = calls[c].inferred.title.val
                /\ calls[c].out.val.deadline = calls[c].inferred.deadline
                /\ calls[c].out.val.priority = calls[c].inferred.priority.val
                /\ calls[c].out.val.tags = calls[c].inferred.tags.val
                /\ calls[c].out.val.description = calls[c].arg.description

C22_Step ==
    \A c \in Callers :
       (/\ calls[c].op = "create" /\ calls[c].pc \notin {"idle", "done"}
        /\ calls'[c] # calls[c])
       => IF calls[c].pc = "repo_create"
          THEN /\ calls'[c].pc = "done"
               /\ Cardinality(DOMAIN todos') <= Cardinality(DOMAIN todos) + 1
               /\ calls'[c].out.tag = "Returned"
                  => /\ DOMAIN todos' = DOMAIN todos \cup {calls'[c].out.val.id}
                     /\ calls'[c].out.val.id \notin DOMAIN todos
          ELSE todos' = todos /\ next_id' = next_id

C22_InferenceJoinedBeforeCreate == [](C22_State) /\ [][C22_Step]_vars

C22_Witness ==
    /\ calls["a"].op = "create" /\ calls["a"].out.tag = "Returned"
    /\ IsSome(calls["a"].inferred.deadline)
    /\ calls["a"].out.val.priority = "High"
    /\ calls["b"].op = "create" /\ calls["b"].pc = "infer_tags"

\* C23: in every state reached through create, update and delete_by_id, with
\* any Status and any Priority in the requests, every stored status code and
\* priority code decodes to a variant, and get_all and get_by_id, the store
\* working, do not panic.
C23_StoredCodesDecode ==
    /\ \A i \in DOMAIN todos :
          /\ StatusFromI16(todos[i].status) \in Status
          /\ PriorityFromI16(todos[i].priority) \in Priority
    /\ (last.op \in {"get_all", "get_by_id"} /\ ~last.fault)
       => last.out.tag = "Returned"

\* C24: when infer_title, infer_priority or infer_tags gives absent, create
\* fails without calling the repository: no row is added, the table and the
\* sequence stay as they were. When only infer_deadline gives absent, create
\* goes on and, the store working, returns a Todo with no deadline.
C24_Step ==
    last'.op = "create"
    => /\ (\/ last'.inferred.title = None
           \/ last'.inferred.priority = None
           \/ last'.inferred.tags = None)
          => /\ last'.out = Panicked("create")
             /\ todos' = todos /\ next_id' = next_id
       /\ (/\ last'.inferred.deadline = None
           /\ InferredPresent(last'.inferred) /\ ~last'.fault)
          => /\ last'.out.tag = "Returned"
             /\ last'.out.val.deadline = None
             /\ RowAt(todos', last'.out.val.id) # None
             /\ RowAt(todos, last'.out.val.id) = None

C24_AbsentInferenceStopsCreate == [][C24_Step]_vars

C24_Witness ==
    /\ last.op = "create" /\ last.out = Panicked("create")
    /\ IsSome(last.inferred.title) /\ last.inferred.deadline = None
    /\ IsSome(last.inferred.priority) /\ last.inferred.tags = None
    /\ DOMAIN todos = {1}

\* C30: parse_date of a text YYYY-MM-DD that names a day of the calendar
\* returns the timestamp of that day at 00:00:00.
C30_ParseDateOfYmd ==
    (conv.fn = "parse_date" /\ IsYmdText(conv.input))
    => conv.output = Some([year |-> ToNumber(SubSeq(conv.input, 1, 4)),
                           month |-> ToNumber(SubSeq(conv.input, 6, 7)),
                           day |-> ToNumber(SubSeq(conv.input, 9, 10)),
                           hour |-> 0, minute |-> 0, second |-> 0])

C30_Witness ==
    /\ conv.fn = "parse_date"
    /\ conv.input = DateText(2021, 1, 1)
    /\ conv.output = Some([year |-> 2021, month |-> 1, day |-> 1,
                           hour |-> 0, minute |-> 0, second |-> 0])

\* C25: in the repository of persistence.rs, update(id, title?, description?,
\* done?) of a stored id replaces exactly the fields given as present and
\* keeps the stored value of every field given as absent; the ids, the
\* created_at of every row and every other row stay; an update with the three
\* fields absent leaves the table as it was.
Patched(o, stored) == IF o = None THEN stored ELSE o.val

C25_Step ==
    /\ \A i \in DOMAIN p_todos \cap DOMAIN p_todos' :
          p_todos'[i].created_at = p_todos[i].created_at
    /\ (p_last'.op = "update" /\ ~p_last'.fault)
       => /\ DOMAIN p_todos' = DOMAIN p_todos
          /\ \A i \in DOMAIN p_todos \ {p_last'.id} : p_todos'[i] = p_todos[i]
          /\ p_last'.id \in DOMAIN p_todos
             => /\ p_todos'[p_last'.id].title
                      = Patched(p_last'.arg.title, p_todos[p_last'.id].title)
                /\ p_todos'[p_last'.id].description
                      = Patched(p_last'.arg.description,
                                p_todos[p_last'.id].description)
                /\ p_todos'[p_last'.id].done
                      = Patched(p_last'.arg.done, p_todos[p_last'.id].done)
          /\ p_last'.arg = [title |-> None, description |-> None, done |-> None]
             => p_todos' = p_todos

C25_PartialPatch == [][C25_Step]_vars

C25_Witness ==
    /\ p_last.op = "update" /\ ~p_last.fault
    /\ p_last.arg = [title |-> Some("Pay rent"), description |-> None,
                     done |-> None]
    /\ RowAt(p_todos, p_last.id) # None
    /\ p_todos[p_last.id].title = "Pay rent"
    /\ p_todos[p_last.id].description = "today"
    /\ p_todos[p_last.id].done

\* ---- context.rs claims
InUsersSection(c) == u_tasks[c].pc \in {"users_locked", "counter_locked", "insert"}

UsersInFlight(c) == u_tasks[c].pc \notin {"idle", "done"}

C27_State ==
    /\ Cardinality({c \in Callers : InUsersSection(c)}) <= 1
    /\ \A c \in Callers :
        /\ InUsersSection(c) <=> u_locks.users = c
        /\ u_tasks[c].pc = "counter_locked" <=> u_locks.counter = c
        /\ u_locks.counter = c => u_locks.users = c
        /\ u_locks.counter = c => u_tasks[c].pc # "lock_users"

\* C27: no interleaving of the five methods deadlocks. The counter lock is
\* held only by the holder of the users lock and never by a call that waits
\* for the users lock, at most one call is inside the section of the users
\* lock, and under fair scheduling every call that was made returns.
C27_NoDeadlock ==
    /\ [](C27_State)
    /\ \A c \in Callers : UsersInFlight(c) ~> (u_tasks[c].pc = "done")

\* one call waits for the users lock while a create_user holds both locks
C27_Witness ==
    \E c, d \in Callers :
        /\ u_tasks[c].pc = "counter_locked"
        /\ u_tasks[d].pc = "lock_users"
        /\ u_tasks[d].op = "create_user"

HasId(c) == u_tasks[c].op = "create_user" /\ u_tasks[c].pc \in {"insert", "done"}

C26_State ==
    /\ DOMAIN u_users \subseteq 1..u_counter
    /\ \A c \in Callers :
        /\ HasId(c) => u_tasks[c].id \in 1..u_counter
        /\ u_tasks[c].pc = "insert" => u_tasks[c].id \notin DOMAIN u_users
        /\ \A d \in Callers \ {c} :
             HasId(c) /\ HasId(d) => u_tasks[c].id # u_tasks[d].id

C26_Step ==
    /\ u_counter' >= u_counter
    /\ DOMAIN u_users' \ DOMAIN u_users \subseteq {u_counter}
    /\ \A c \in Callers :
         u_tasks[c].pc = "counter_locked" /\ u_tasks'[c].pc = "insert"
         => /\ u_tasks'[c].id = u_counter'
            /\ u_tasks'[c].id > u_counter
            /\ u_counter = 0 => u_tasks'[c].id = 1
            /\ \A i \in DOMAIN u_users : u_tasks'[c].id > i
            /\ \A d \in Callers : HasId(d) => u_tasks'[c].id > u_tasks[d].id

\* C26: create_user takes its ids from a counter that only goes up. The
\* first id is 1, each later id is greater than every id given before, so
\* none is given again after a delete_user, two concurrent create_user calls
\* get different ids, and every key of the map lies between 1 and the counter.
C26_IdsFromCounter == [](C26_State) /\ [][C26_Step]_vars

\* user 1 was deleted and the next create_user got id 2
C26_Witness == u_counter = 2 /\ DOMAIN u_users = {2}

UpdateUserEnds(c) ==
    /\ u_tasks[c].op = "update_user"
    /\ u_tasks[c].pc = "users_locked"
    /\ u_tasks'[c].pc = "done"

C28_Step ==
    \A c \in Callers :
        UpdateUserEnds(c) =>
            /\ u_counter' = u_counter
            /\ IF u_tasks[c].id \in DOMAIN u_users
               THEN /\ u_tasks'[c].out = ResultOk(Unit)
                    /\ DOMAIN u_users' = DOMAIN u_users
                    /\ u_users'[u_tasks[c].id].name
                         = Patched(u_tasks[c].arg.name, u_users[u_tasks[c].id].name)
                    /\ u_users'[u_tasks[c].id].email
                         = Patched(u_tasks[c].arg.email, u_users[u_tasks[c].id].email)
                    /\ \A j \in DOMAIN u_users \ {u_tasks[c].id} :
                         u_users'[j] = u_users[j]
               ELSE /\ u_tasks'[c].out = ResultErr(MissingUser(u_tasks[c].id))
                    /\ u_users' = u_users

\* C28: update_user on a stored id returns Ok, sets the name and the email
\* only where the request gives one, and leaves the other field and the other
\* users as they were; on an id that is not stored it returns MissingUser with
\* that id and the map and the counter stay as they were.
C28_UpdateUser == [][C28_Step]_vars

\* an update that gave only an email has returned Ok beside a second user
C28_Witness ==
    \E c \in Callers :
        /\ u_tasks[c].op = "update_user" /\ u_tasks[c].pc = "done"
        /\ u_tasks[c].out = ResultOk(Unit)
        /\ DOMAIN u_users = {1, 2}
        /\ u_users[u_tasks[c].id]
             = [name |-> "Ann", email |-> "bob@example.org"]

DeleteUserEnds(c) ==
    /\ u_tasks[c].op = "delete_user"
    /\ u_tasks[c].pc = "users_locked"
    /\ u_tasks'[c].pc = "done"

C29_Step ==
    \A c \in Callers :
        DeleteUserEnds(c) =>
            /\ u_counter' = u_counter
            /\ u_tasks'[c].out = ResultOk(Unit) <=> u_tasks[c].id \in DOMAIN u_users
            /\ IF u_tasks[c].id \in DOMAIN u_users
               THEN /\ DOMAIN u_users' = DOMAIN u_users \ {u_tasks[c].id}
                    /\ \A j \in DOMAIN u_users' : u_users'[j] = u_users[j]
                    /\ UsersState_get_user(u_users', u_tasks[c].id).out = None
                    /\ \A u \in UsersState_get_users(u_users').out.list :
                         u.id # u_tasks[c].id
               ELSE /\ u_tasks'[c].out = ResultErr(MissingUser(u_tasks[c].id))
                    /\ u_users' = u_users

\* C29: delete_user returns Ok exactly when the id was stored, and then
\* removes that user and no other; otherwise, a second delete of the same id
\* included, it returns MissingUser with that id and changes nothing. After a
\* delete that returned Ok, get_user of the id is absent and get_users does
\* not list it.
C29_DeleteUser == [][C29_Step]_vars

\* user 1, the only one ever made, is gone: one delete of it returned Ok
\* and the other MissingUser
C29_Witness ==
    \E c, d \in Callers :
        /\ u_tasks[c].op = "delete_user" /\ u_tasks[c].pc = "done"
        /\ u_tasks[d].op = "delete_user" /\ u_tasks[d].pc = "done"
        /\ u_tasks[c].out = ResultOk(Unit)
        /\ u_tasks[d].out = ResultErr(MissingUser(1))
        /\ u_counter = 1 /\ u_users = EmptyTable

====
